---- MODULE Spec2Model ----
(***************************************************************************)
(* docs2context: the crawl-and-aggregation pipeline of scrapeContent       *)
(* (src/src/scraper.js, and the revision with GPT cleaning in              *)
(* src/unnamed/part_005) together with its caller addDocumentation         *)
(* (src/src/index.js).                                                     *)
(*                                                                         *)
(* A JavaScript string is a sequence of one-character strings, so that     *)
(* includes, endsWith, toLowerCase, the hostname of a URL and the          *)
(* comparison of titles are computed and not assumed.                      *)
(***************************************************************************)
EXTENDS Integers, Sequences, FiniteSets, TLC

VARIABLES
  startUrl,        \* argument of scrapeContent
  options,         \* options object built by the CLI and passed by addDocumentation
  withAI,          \* TRUE: scrapeContent of unnamed/part_005; FALSE: of src/src/scraper.js
  pc,              \* position of the async function scrapeContent / of its caller
  discoveredUrls,  \* Set, in insertion order
  visitedUrls,
  urlQueue,
  urlDepth,
  docPagesCount,
  currentBatch,    \* batch of the crawl loop
  linkRequests,    \* URLs whose axios.get of extractLinksFromUrl is in flight
  linkResults,     \* settled promises of the batch: url -> links
  pagesToProcess,
  i,               \* index of the extraction loop
  batch,           \* batch of the extraction loop
  pageRequests,    \* URLs whose axios.get of scrapePageContent is in flight
  pageResults,     \* settled promises of the batch: url -> page or null
  batchPages,
  cleanRequests,   \* URLs whose openai call of cleanMarkdownWithAI is in flight
  cleanResults,    \* settled cleaning promises: url -> page
  pages,
  result,          \* value returned by scrapeContent
  outputFile,      \* what addDocumentation wrote with fs.writeFile
  failed,          \* requests that failed so far: <<kind of request, url>>
  issued,          \* requests issued so far: <<kind of request, url>> -> how often
  cleanLog,        \* calls of cleanMarkdownWithAI: content given, service reply, content returned
  extracted        \* the pages scrapePageContent has returned so far, as it returned them

vars == <<startUrl, options, withAI, pc, discoveredUrls, visitedUrls, urlQueue,
          urlDepth, docPagesCount, currentBatch, linkRequests, linkResults,
          pagesToProcess, i, batch, pageRequests, pageResults, batchPages,
          cleanRequests, cleanResults, pages, result, outputFile, failed, issued,
          cleanLog, extracted>>

----------------------------------------------------------------------------
(* Bounds of the model *)

\* at most this many requests (link fetch, page fetch, cleaning call) fail in a run
MaxFailures == 1

----------------------------------------------------------------------------
(* Program constants *)

maxDepth == 4
batchSize == 5
maxPages == 500
minContentLength == 100

----------------------------------------------------------------------------
(* Strings *)

UPPER == <<"A","B","C","D","E","F","G","H","I","J","K","L","M","N","O","P","Q","R","S","T","U","V","W","X","Y","Z">>
LOWER == <<"a","b","c","d","e","f","g","h","i","j","k","l","m","n","o","p","q","r","s","t","u","v","w","x","y","z">>
DIGITS == <<"0","1","2","3","4","5","6","7","8","9">>

Range(s) == {s[k] : k \in 1..Len(s)}

IndexIn(c, s) == IF \E k \in 1..Len(s) : s[k] = c
                 THEN CHOOSE k \in 1..Len(s) : s[k] = c /\ \A j \in 1..(k-1) : s[j] # c
                 ELSE 0

upperToLower == [c \in Range(UPPER) |-> LOWER[IndexIn(c, UPPER)]]

lowerChar(c) == IF c \in DOMAIN upperToLower THEN upperToLower[c] ELSE c

toLowerCase(s) == [k \in 1..Len(s) |-> lowerChar(s[k])]

includes(s, p) == \E k \in 0..(Len(s) - Len(p)) : SubSeq(s, k + 1, k + Len(p)) = p

endsWith(s, p) == Len(p) <= Len(s) /\ SubSeq(s, Len(s) - Len(p) + 1, Len(s)) = p

Min(a, b) == IF a <= b THEN a ELSE b

\* a slice that does not stop at `to`
slice_toEnd(s, from, to) == SubSeq(s, from + 1, Len(s))

\* Array.prototype.slice(from, to), 0-based, to exclusive
slice(s, from, to) == SubSeq(s, from + 1, Min(to, Len(s)))

----------------------------------------------------------------------------
(* URLs *)

\* new URL(u).hostname for an absolute, already normalised URL
hostname(u) ==
  LET a == CHOOSE k \in 1..Len(u) : /\ k < Len(u) /\ u[k] = "/" /\ u[k+1] = "/"
                                    /\ \A j \in 1..(k-1) : ~(u[j] = "/" /\ u[j+1] = "/")
      from == a + 2
      stops == {k \in from..Len(u) : u[k] \in {"/", "?", "#", ":"}}
      to == IF stops = {} THEN Len(u)
            ELSE (CHOOSE k \in stops : \A j \in stops : k <= j) - 1
  IN  SubSeq(u, from, to)

\* /\.(pdf|zip|jpg|jpeg|png|gif|svg|css|js|ico|woff|woff2|ttf|eot)$/i
assetExtensions ==
  { <<".","p","d","f">>, <<".","z","i","p">>, <<".","j","p","g">>, <<".","j","p","e","g">>, <<".","p","n","g">>, <<".","g","i","f">>, <<".","s","v","g">>, <<".","c","s","s">>,
    <<".","j","s">>, <<".","i","c","o">>, <<".","w","o","f","f">>, <<".","w","o","f","f","2">>, <<".","t","t","f">>, <<".","e","o","t">> }

matchesAssetExtension(url) ==
  LET lower == toLowerCase(url) IN \E e \in assetExtensions : endsWith(lower, e)

\* /\.(jpg|jpeg|png|gif|svg|css|js|ico|woff|woff2|ttf|eot)$/i
mediaExtensions == assetExtensions \ { <<".","p","d","f">>, <<".","z","i","p">> }

matchesMediaExtension(url) ==
  LET lower == toLowerCase(url) IN \E e \in mediaExtensions : endsWith(lower, e)

excludePatterns ==
  { <<"/","d","o","w","n","l","o","a","d","/">>, <<"/","r","e","l","e","a","s","e","s","/">>, <<"/","c","h","a","n","g","e","l","o","g","/">>, <<"/","c","o","m","m","u","n","i","t","y","/">>, <<"/","f","o","r","u","m","/">>,
    <<"/","c","o","n","t","a","c","t","/">>, <<"/","p","r","i","c","i","n","g","/">>, <<"/","t","e","a","m","/">>, <<"/","a","b","o","u","t","/">>, <<"/","s","u","p","p","o","r","t","/">>, <<"/","l","e","g","a","l","/">>,
    <<"/","t","e","r","m","s","/">>, <<"/","p","r","i","v","a","c","y","/">> }

\* a decision that also looks at the crawl: no page is accepted once two are counted
isLikelyDocPage_whileFew(url) ==
  IF (\E pattern \in excludePatterns : includes(url, pattern)) \/ docPagesCount >= 2
  THEN FALSE ELSE TRUE

\* pattern => url.endsWith(pattern) in the place of url.includes(pattern)
isLikelyDocPage_endsWith(url) ==
  IF \E pattern \in excludePatterns : endsWith(url, pattern) THEN FALSE ELSE TRUE

isLikelyDocPage(url) ==
  IF \E pattern \in excludePatterns : includes(url, pattern) THEN FALSE ELSE TRUE

introTerms ==
  { <<"i","n","t","r","o">>, <<"g","e","t","t","i","n","g","-","s","t","a","r","t","e","d">>, <<"o","v","e","r","v","i","e","w">>, <<"i","n","d","e","x">>, <<"r","e","a","d","m","e">>, <<"h","o","m","e">>,
    <<"q","u","i","c","k","s","t","a","r","t">> }

hasIntro(url) == LET lower == toLowerCase(url) IN \E term \in introTerms : includes(lower, term)

\* the same without the comparison of hostnames
keepsLink_anyHostname(resolvedUrl, baseDomain) ==
  /\ ~includes(resolvedUrl, <<"#">>)
  /\ ~endsWith(resolvedUrl, <<".","p","d","f">>)
  /\ ~endsWith(resolvedUrl, <<".","z","i","p">>)
  /\ ~includes(resolvedUrl, <<"?">>)

\* the condition under which extractLinksFromUrl keeps a resolved link
keepsLink(resolvedUrl, baseDomain) ==
  /\ hostname(resolvedUrl) = baseDomain
  /\ ~includes(resolvedUrl, <<"#">>)
  /\ ~endsWith(resolvedUrl, <<".","p","d","f">>)
  /\ ~endsWith(resolvedUrl, <<".","z","i","p">>)
  /\ ~matchesMediaExtension(resolvedUrl)
  /\ ~includes(resolvedUrl, <<"?">>)

\* Array.from(new Set(..)) of the kept links, in document order: a link that
\* is kept a second time does not move.  The list is taken in two halves.
RECURSIVE keptLinks(_, _)
keptLinks(hrefs, baseDomain) ==
  IF Len(hrefs) = 0 THEN <<>>
  ELSE IF Len(hrefs) = 1
       THEN IF keepsLink(hrefs[1], baseDomain) THEN hrefs ELSE <<>>
  ELSE LET half == Len(hrefs) \div 2
           front == keptLinks(SubSeq(hrefs, 1, half), baseDomain)
           back == keptLinks(SubSeq(hrefs, half + 1, Len(hrefs)), baseDomain)
       IN  front \o SelectSeq(back, LAMBDA link : link \notin Range(front))

----------------------------------------------------------------------------
(* The web: the response each URL gives to an HTTP GET.  Unknown URLs      *)
(* answer 404.  hrefs are the targets of the page's <a> elements, already  *)
(* resolved against the page URL.                                          *)

Html == <<"t","e","x","t","/","h","t","m","l",";"," ","c","h","a","r","s","e","t","=","u","t","f","-","8">>
Json == <<"a","p","p","l","i","c","a","t","i","o","n","/","j","s","o","n">>

Response(contentType, title, hasMain, markdown, hrefs) ==
  [status |-> 200, contentType |-> contentType, title |-> title,
   mainContent |-> hasMain, markdown |-> markdown, hrefs |-> hrefs]

NotFound ==
  [status |-> 404, contentType |-> Html, title |-> <<>>, mainContent |-> FALSE,
   markdown |-> 0, hrefs |-> <<>>]

\* a.io: a chain of pages, each one link deeper than the one before
A0 == <<"h","t","t","p",":","/","/","a",".","i","o","/">>
A1 == <<"h","t","t","p",":","/","/","a",".","i","o","/","t","e","a","m","/","1">>
A2 == <<"h","t","t","p",":","/","/","a",".","i","o","/","t","e","a","m","/","2">>
A3 == <<"h","t","t","p",":","/","/","a",".","i","o","/","t","e","a","m","/","3">>
A4 == <<"h","t","t","p",":","/","/","a",".","i","o","/","d","e","e","p">>
A5 == <<"h","t","t","p",":","/","/","a",".","i","o","/","d","e","e","p","e","r">>

\* w.io: a guide whose start page has more links than one batch holds
W0 == <<"h","t","t","p",":","/","/","w",".","i","o","/">>
W1 == <<"h","t","t","p",":","/","/","w",".","i","o","/","g","e","t","t","i","n","g","-","s","t","a","r","t","e","d","/","i","n","s","t","a","l","l">>
W2 == <<"h","t","t","p",":","/","/","w",".","i","o","/","G","e","t","t","i","n","g","-","S","t","a","r","t","e","d","/","u","s","e">>
W3 == <<"h","t","t","p",":","/","/","w",".","i","o","/","a","p","i">>
W4 == <<"h","t","t","p",":","/","/","w",".","i","o","/","f","a","q">>
W5 == <<"h","t","t","p",":","/","/","w",".","i","o","/","c","l","i">>
W6 == <<"h","t","t","p",":","/","/","w",".","i","o","/","a","p","i","/","m","o","r","e">>
WPdf == <<"h","t","t","p",":","/","/","w",".","i","o","/","m","a","n",".","P","D","F">>
WTeam == <<"h","t","t","p",":","/","/","w",".","i","o","/","t","e","a","m","/","b","i","o">>

\* t.io: nothing that can be extracted: a thin start page with links to a
\* JSON answer, to a page without main content, to a page that is not there
\* and to another host; the page without main content links to a thin page
T0 == <<"h","t","t","p",":","/","/","t",".","i","o","/","i","n","d","e","x">>
T1 == <<"h","t","t","p",":","/","/","t",".","i","o","/","d","a","t","a">>
T2 == <<"h","t","t","p",":","/","/","t",".","i","o","/","e","m","p","t","y">>
T3 == <<"h","t","t","p",":","/","/","t",".","i","o","/","g","o","n","e">>
T4 == <<"h","t","t","p",":","/","/","t",".","i","o","/","m","o","r","e">>
T5 == <<"h","t","t","p",":","/","/","t",".","i","o","/","t","h","i","n">>

\* n.io: a start page that lists more files than maxPages, then two pages
N0 == <<"h","t","t","p",":","/","/","n",".","i","o","/">>
NLast == <<"h","t","t","p",":","/","/","n",".","i","o","/","l","a","s","t">>
NOver == <<"h","t","t","p",":","/","/","n",".","i","o","/","o","v","e","r">>

RECURSIVE decimal(_)
decimal(n) ==
  IF n < 10 THEN <<DIGITS[n + 1]>> ELSE decimal(n \div 10) \o <<DIGITS[(n % 10) + 1]>>

manual(k) == N0 \o decimal(k) \o <<".","P","D","F">>

Web ==
  (N0 :> Response(Html, <<"F","i","l","e","s">>, TRUE, 300,
           [k \in 1..(maxPages - 2) |-> manual(k)] \o <<NLast, NOver>>)) @@
  (NLast :> Response(Html, <<"L","a","s","t">>, TRUE, 300, <<>>)) @@
  (NOver :> Response(Html, <<"O","v","e","r">>, TRUE, 300, <<>>)) @@
  (A0 :> Response(Html, <<"C","h","a","i","n">>, TRUE, 300, <<A1>>)) @@
  (A1 :> Response(Html, <<"O","n","e">>, TRUE, 300, <<A0, A2>>)) @@
  (A2 :> Response(Html, <<"T","w","o">>, TRUE, 300, <<A0, A3>>)) @@
  (A3 :> Response(Html, <<"T","h","r","e","e">>, TRUE, 300, <<A0, A1, A4>>)) @@
  (A4 :> Response(Html, <<"F","o","u","r">>, TRUE, 300, <<A0, A5>>)) @@
  (A5 :> Response(Html, <<"F","i","v","e">>, TRUE, 300, <<A0>>)) @@
  (W0 :> Response(Html, <<" "," ">>, TRUE, 100,
           <<W1, W1, <<"h","t","t","p",":","/","/","w",".","i","o","/","f","a","q","#","t","o","p">>, <<"h","t","t","p",":","/","/","w",".","i","o","/","f","a","q","?","x","=","1">>,
             <<"h","t","t","p",":","/","/","w",".","i","o","/","l","o","g","o",".","p","n","g">>, <<"h","t","t","p",":","/","/","w",".","i","o","/","k","i","t",".","z","i","p">>, A0,
             <<"h","t","t","p",":","/","/","w",".","w",".","i","o","/","a","p","i">>, W2, W3, W4, W5, WPdf, WTeam>>)) @@
  (W1 :> Response(Html, <<"Z","e","t","a"," ","s","e","t","u","p">>, TRUE, 200, <<W0, W2>>)) @@
  (W2 :> Response(Html, <<"b","a","s","i","c","s">>, TRUE, 200, <<>>)) @@
  (W3 :> Response(Html, <<"A","P","I">>, TRUE, 200, <<W6, T0>>)) @@
  (W4 :> Response(Html, <<"a","p","i"," ","n","o","t","e","s">>, TRUE, 200, <<>>)) @@
  (W5 :> Response(Html, <<"B","e","t","a">>, FALSE, 0, <<W0>>)) @@
  (W6 :> Response(Html, <<"A","P","I">>, TRUE, 200, <<W0>>)) @@
  (WTeam :> Response(Html, <<"T","e","a","m">>, TRUE, 200, <<W0>>)) @@
  (T0 :> Response(Html, <<"I","n","d","e","x">>, TRUE, 99, <<T1, T2, T3, W0>>)) @@
  (T1 :> Response(Json, <<>>, FALSE, 0, <<T4>>)) @@
  (T2 :> Response(Html, <<"E","m","p","t","y">>, FALSE, 0, <<T5>>)) @@
  (T4 :> Response(Html, <<"M","o","r","e">>, TRUE, 300, <<>>)) @@
  (T5 :> Response(Html, <<"T","h","i","n">>, TRUE, 50, <<>>))

StartUrls == {A0, A1, W0, T0}

\* the response axios.get(url) receives when the request gets through
get(url) == IF url \in DOMAIN Web THEN Web[url] ELSE NotFound

\* validateStatus of both axios calls
validStatus(status) == status < 400

htmlLike(contentType) ==
  \/ includes(contentType, <<"t","e","x","t","/","h","t","m","l">>)
  \/ includes(contentType, <<"a","p","p","l","i","c","a","t","i","o","n","/","x","h","t","m","l","+","x","m","l">>)
  \/ includes(contentType, <<"t","e","x","t","/","p","l","a","i","n">>)

----------------------------------------------------------------------------
(* extractLinksFromUrl: the links it resolves to, given the outcome of its *)
(* request (ok = FALSE: network error or timeout)                          *)

\* the anchors of whatever came back are taken, the content type is not looked at
extractLinksFromUrl_anyContentType(url, baseDomain, ok) ==
  IF matchesAssetExtension(url) THEN <<>>
  ELSE IF ~ok \/ ~validStatus(get(url).status) THEN <<>>
  ELSE keptLinks(get(url).hrefs, baseDomain)

extractLinksFromUrl(url, baseDomain, ok) ==
  IF matchesAssetExtension(url) THEN <<>>
  ELSE IF ~ok \/ ~validStatus(get(url).status) THEN <<>>
  ELSE IF ~htmlLike(get(url).contentType) THEN <<>>
  ELSE keptLinks(get(url).hrefs, baseDomain)

\* does extractLinksFromUrl reach axios.get for this url
requestsLinks(url) == ~matchesAssetExtension(url)

----------------------------------------------------------------------------
(* scrapePageContent *)

null == [null |-> TRUE]

RECURSIVE trim(_)
trim(s) ==
  IF s = <<>> THEN s
  ELSE IF s[1] = " " THEN trim(Tail(s))
  ELSE IF s[Len(s)] = " " THEN trim(SubSeq(s, 1, Len(s) - 1))
  ELSE s

\* the script, style, noscript, iframe and svg elements that the page has
\* inside the element its content is taken from
embedded(url) ==
  IF url = W1 THEN {"script", "style"}
  ELSE IF url = W3 THEN {"iframe", "svg"}
  ELSE {}

\* $(selector).html() of the first selector that gives anything, read from
\* a document from which the elements `removed` were taken out before: the
\* text the markdown is made of and the embedded elements that are in it.
\* scrapePageContent reads it before $('script, style, noscript, iframe,
\* svg').remove() is called, so with nothing taken out
html(url, removed) == [text |-> get(url).markdown, elements |-> embedded(url) \ removed]

\* nhm.translate(mainContent): the length of the markdown, and the embedded
\* elements of the markup it was made from
translate(mainContent) == [length |-> mainContent.text, elements |-> mainContent.elements]

\* `# ${title}\n\nSource: ${url}\n\n${markdown}`: what it is made of, and its length
formattedContent(title, url, markdown) ==
  [by |-> "scrapePageContent", of |-> url,
   length |-> 2 + Len(title) + 10 + Len(url) + 2 + markdown.length,
   elements |-> markdown.elements]

\* a page is returned however short its markdown is
scrapePageContent_anyLength(url, ok) ==
  IF matchesAssetExtension(url) THEN null
  ELSE IF ~ok \/ ~validStatus(get(url).status) THEN null
  ELSE IF ~htmlLike(get(url).contentType) THEN null
  ELSE LET title == IF trim(get(url).title) # <<>> THEN trim(get(url).title) ELSE url
           mainContent == html(url, {})
           markdown == translate(mainContent)
       IN  IF ~get(url).mainContent THEN null
           ELSE [url |-> url, title |-> title,
                 content |-> formattedContent(title, url, markdown)]

scrapePageContent(url, ok) ==
  IF matchesAssetExtension(url) THEN null
  ELSE IF ~ok \/ ~validStatus(get(url).status) THEN null
  ELSE IF ~htmlLike(get(url).contentType) THEN null
  ELSE LET title == IF trim(get(url).title) # <<>> THEN trim(get(url).title) ELSE url
           mainContent == html(url, {})
           markdown == translate(mainContent)
       IN  IF ~get(url).mainContent THEN null
           ELSE IF markdown.length < minContentLength THEN null
           ELSE [url |-> url, title |-> title,
                 content |-> formattedContent(title, url, markdown)]

requestsPage(url) == ~matchesAssetExtension(url)

----------------------------------------------------------------------------
(* cleanMarkdownWithAI (unnamed/part_005) *)

\* what the completion call can come back with: it throws (error, timeout,
\* no choices in the response), or it gives message.content: null, or a text
Replies(url) ==
  { [kind |-> "error", content |-> null],
    [kind |-> "completion", content |-> null],
    [kind |-> "completion", content |-> [by |-> "gpt-4o-mini", of |-> url, length |-> 0]],
    [kind |-> "completion", content |-> [by |-> "gpt-4o-mini", of |-> url, length |-> 99]],
    [kind |-> "completion", content |-> [by |-> "gpt-4o-mini", of |-> url, length |-> 100]] }

\* !cleanedContent alone
tooShort_onlyEmpty(cleanedContent) == cleanedContent = null \/ cleanedContent.length = 0

\* !cleanedContent || cleanedContent.length < 100
tooShort(cleanedContent) ==
  cleanedContent = null \/ cleanedContent.length = 0 \/ cleanedContent.length < minContentLength

cleanMarkdownWithAI(content, title, url, reply) ==
  IF reply.kind = "error" THEN content
  ELSE IF tooShort(reply.content) THEN content
  ELSE reply.content

\* a reply that makes cleanMarkdownWithAI fall back
degenerate(reply) == reply.kind = "error" \/ tooShort(reply.content)

----------------------------------------------------------------------------
(* String.prototype.localeCompare: the root collation on the characters    *)
(* used here.  Characters are compared first without regard to case, in    *)
(* the order white space < punctuation < digits < letters; strings equal   *)
(* at that level are told apart by case, lower case first.                 *)

COLLATION == <<" ","_","-",",",";",":","!","?",".","'","(",")","@","*","/","&","#","%","+","=","0","1","2","3","4","5","6","7","8","9","a","b","c","d","e","f","g","h","i","j","k","l","m","n","o","p","q","r","s","t","u","v","w","x","y","z">>

collationWeight == [c \in Range(COLLATION) |-> IndexIn(c, COLLATION)]

primaryKey(s) ==
  [k \in 1..Len(s) |->
     IF lowerChar(s[k]) \in DOMAIN collationWeight THEN collationWeight[lowerChar(s[k])] ELSE 0]

caseKey(s) == [k \in 1..Len(s) |-> IF s[k] \in DOMAIN upperToLower THEN 1 ELSE 0]

\* lexicographic comparison of two sequences of numbers: -1, 0 or 1
compareKeys(a, b) ==
  LET n == Min(Len(a), Len(b))
      diff == {k \in 1..n : a[k] # b[k]}
  IN  IF diff # {}
      THEN LET k == CHOOSE d \in diff : \A e \in diff : d <= e
           IN  IF a[k] < b[k] THEN -1 ELSE 1
      ELSE IF Len(a) < Len(b) THEN -1
      ELSE IF Len(a) > Len(b) THEN 1
      ELSE 0

localeCompare(a, b) ==
  LET primary == compareKeys(primaryKey(a), primaryKey(b))
  IN  IF primary # 0 THEN primary ELSE compareKeys(caseKey(a), caseKey(b))

----------------------------------------------------------------------------
(* The comparator of pages.sort and the sort itself (Array.prototype.sort  *)
(* is stable)                                                              *)

\* the comparator without the introductory terms
comparePages_byTitleOnly(a, b) == localeCompare(a.title, b.title)

\* the comparator without the titles
comparePages_byIntroOnly(a, b) ==
  IF hasIntro(a.url) /\ ~hasIntro(b.url) THEN -1
  ELSE IF ~hasIntro(a.url) /\ hasIntro(b.url) THEN 1
  ELSE 0

comparePages(a, b) ==
  LET aHasIntro == hasIntro(a.url)
      bHasIntro == hasIntro(b.url)
  IN  IF aHasIntro /\ ~bHasIntro THEN -1
      ELSE IF ~aHasIntro /\ bHasIntro THEN 1
      ELSE localeCompare(a.title, b.title)

\* a sort that puts the later of two pages first when the comparator sees
\* no difference
sortsBefore_lastFirst(ps, j, k) ==
  LET order == comparePages(ps[j], ps[k])
  IN  order < 0 \/ (order = 0 /\ j > k)

\* in the sorted array ps[j] stands before ps[k]: the comparator puts it
\* first, or it sees no difference and ps[j] came first
sortsBefore(ps, j, k) ==
  LET order == comparePages(ps[j], ps[k])
  IN  order < 0 \/ (order = 0 /\ j < k)

\* a sort that keeps only the first of the pages the comparator does not
\* tell apart
sortPages_dropsEqual(ps) ==
  LET firsts == {k \in 1..Len(ps) : \A j \in 1..(k - 1) : comparePages(ps[j], ps[k]) # 0}
      place == [k \in firsts |-> Cardinality({j \in firsts : sortsBefore(ps, j, k)}) + 1]
      sorted == [r \in 1..Cardinality(firsts) |-> ps[CHOOSE k \in firsts : place[k] = r]]
  IN  SubSeq(sorted, 1, Cardinality(firsts))

\* pages.sort(..): every page at the place that is the number of pages
\* that stand before it, plus one
sortPages(ps) ==
  LET place == [k \in 1..Len(ps) |->
                  Cardinality({j \in 1..Len(ps) : sortsBefore(ps, j, k)}) + 1]
      sorted == [r \in 1..Len(ps) |-> ps[CHOOSE k \in 1..Len(ps) : place[k] = r]]
  IN  SubSeq(sorted, 1, Len(ps))

----------------------------------------------------------------------------
(* Table of contents and final document *)

alphanumeric(c) == c \in Range(LOWER) \cup Range(DIGITS)

\* s.replace(/[^a-z0-9]/g, '-'): a hyphen for every character, not for every run
replaceNonAlphanumeric_each(s) ==
  [k \in 1..Len(s) |-> IF alphanumeric(s[k]) THEN s[k] ELSE "-"]

\* s.replace(/[^a-z0-9]+/g, '-')
\* the replacement of s from its k-th character on: the regular expression
\* matches at a character that is no letter or digit, takes the run that
\* starts there and is looked for again behind that run
RECURSIVE replaceFrom(_, _)
replaceFrom(s, k) ==
  IF k > Len(s) THEN <<>>
  ELSE IF alphanumeric(s[k]) THEN <<s[k]>> \o replaceFrom(s, k + 1)
  ELSE IF k > 1 /\ ~alphanumeric(s[k - 1]) THEN replaceFrom(s, k + 1)
  ELSE <<"-">> \o replaceFrom(s, k + 1)

replaceNonAlphanumeric(s) == replaceFrom(s, 1)

anchorOf(title) == replaceNonAlphanumeric(toLowerCase(title))

\* formatListItem(`[${page.title}](#${anchor})`, index): "<index + 1>. [title](#anchor)"
formatListItem(title, anchor, index) ==
  [number |-> index + 1, title |-> title, anchor |-> anchor]

tableOfContents(ps) ==
  [kind |-> "toc", heading |-> "Table of Contents",
   items |-> [k \in 1..Len(ps) |-> formatListItem(ps[k].title, anchorOf(ps[k].title), k - 1)]]

separator == [kind |-> "separator", text |-> "\n\n---\n\n"]

\* the separator after every part, the last one too
RECURSIVE join_afterEach(_, _)
join_afterEach(parts, sep) ==
  IF parts = <<>> THEN <<>>
  ELSE join_afterEach(SubSeq(parts, 1, Len(parts) - 1), sep) \o <<parts[Len(parts)], sep>>

\* Array.prototype.join: the parts with the separator between every two of them
join(parts, sep) ==
  IF Len(parts) <= 1 THEN parts
  ELSE [k \in 1..(2 * Len(parts) - 1) |-> IF k % 2 = 1 THEN parts[(k + 1) \div 2] ELSE sep]

combinedContent(start, ps) ==
  join(<<[kind |-> "header", source |-> start], tableOfContents(ps)>>
         \o [k \in 1..Len(ps) |-> [kind |-> "page", content |-> ps[k].content]],
       separator)

nothingScraped == [kind |-> "message", text |-> "No documentation content could be scraped."]

document(start, ps) == [kind |-> "document", text |-> combinedContent(start, ps)]

\* a document built without looking at pages.length
scrapeResult_alwaysDocument(start, ps) == document(start, ps)

\* what scrapeContent returns once the extraction loop is over; ps is the
\* array pages, sorted unless it is empty
scrapeResult(start, ps) ==
  IF Len(ps) = 0 THEN nothingScraped ELSE document(start, ps)

----------------------------------------------------------------------------
(* Crawl loop of scrapeContent *)

\* the fallback of `urlDepth.get(url) || 1` taken for every URL
depthOf_fallback(depths, url) == 1

depthOf(depths, url) == IF url \in DOMAIN depths THEN depths[url] ELSE 1

\* a batch that takes nothing from the queue
spliceBatch_nothing(queue) == slice(queue, 0, 0)

\* the whole queue taken as one batch
spliceBatch_wholeQueue(queue) == queue

\* urlQueue.splice(0, batchSize): the batch taken from the queue
spliceBatch(queue) == slice(queue, 0, batchSize)

\* the callback without `if (depth > maxDepth) return ...`
linkRequestsOf_anyDepth(urls, depths) == {url \in Range(urls) : requestsLinks(url)}

\* the urls of the batch for which the map callback calls extractLinksFromUrl
\* and that call reaches axios.get
linkRequestsOf(urls, depths) ==
  {url \in Range(urls) : ~(depthOf(depths, url) > maxDepth) /\ requestsLinks(url)}

\* `await Promise.allSettled(promises)` goes on once no request is pending
allSettled(pending) == pending = {}

\* every link of the result pushed to the queue, the known ones too
addLinks_requeue(st, links, nextDepth) ==
  LET known == Range(st.discovered)
      new == SelectSeq(links, LAMBDA link : link \notin known)
  IN  [discovered |-> st.discovered \o new,
       queue |-> st.queue \o links,
       depth |-> [link \in Range(new) |-> nextDepth] @@ st.depth,
       count |-> st.count + Len(SelectSeq(new, isLikelyDocPage))]

\* the depth set for every link of the result, the known ones too
addLinks_revise(st, links, nextDepth) ==
  LET known == Range(st.discovered)
      new == SelectSeq(links, LAMBDA link : link \notin known)
  IN  [discovered |-> st.discovered \o new,
       queue |-> st.queue \o new,
       depth |-> [link \in Range(links) |-> nextDepth] @@ st.depth,
       count |-> st.count + Len(SelectSeq(new, isLikelyDocPage))]

\* `for (const link of linksArray)` for one result.  linksArray is the
\* Array.from of a Set, so no link is in it twice: the links that
\* discoveredUrls does not have yet are added in the order of the array
addLinks(st, links, nextDepth) ==
  LET known == Range(st.discovered)
      new == SelectSeq(links, LAMBDA link : link \notin known)
  IN  [discovered |-> st.discovered \o new,
       queue |-> st.queue \o new,
       depth |-> [link \in Range(new) |-> nextDepth] @@ st.depth,
       count |-> st.count + Len(SelectSeq(new, isLikelyDocPage))]

\* the loop over the results left at the first result without links
RECURSIVE mergeResults_stopAtEmpty(_, _, _)
mergeResults_stopAtEmpty(st, urls, results) ==
  IF urls = <<>> \/ results[Head(urls)] = <<>> THEN st
  ELSE mergeResults_stopAtEmpty(
         addLinks(st, results[Head(urls)], depthOf(st.depth, Head(urls)) + 1),
         Tail(urls), results)

\* `for (const result of batchResults)`: results are taken in the order of the batch
RECURSIVE mergeResults(_, _, _)
mergeResults(st, urls, results) ==
  IF urls = <<>> THEN st
  ELSE mergeResults(addLinks(st, results[Head(urls)], depthOf(st.depth, Head(urls)) + 1),
                    Tail(urls), results)

bump(counts, keys) ==
  [k \in DOMAIN counts \cup keys |->
     (IF k \in DOMAIN counts THEN counts[k] ELSE 0) + (IF k \in keys THEN 1 ELSE 0)]

mayFail == Cardinality(failed) < MaxFailures

\* const baseDomain = new URL(startUrl).hostname
baseDomain == hostname(startUrl)

crawlVars == <<discoveredUrls, visitedUrls, urlQueue, urlDepth, docPagesCount,
               currentBatch, linkRequests, linkResults>>
extractVars == <<pagesToProcess, i, batch, pageRequests, pageResults, batchPages,
                 cleanRequests, cleanResults, pages, cleanLog, extracted>>
callVars == <<startUrl, options, withAI>>

\* a round that marks as visited only the URLs whose links it requests
DispatchLinkBatch_marksRequested ==
  /\ pc = "crawl"
  /\ Len(urlQueue) > 0
  /\ currentBatch' = spliceBatch(urlQueue)
  /\ urlQueue' = SubSeq(urlQueue, Len(currentBatch') + 1, Len(urlQueue))
  /\ linkRequests' = linkRequestsOf(currentBatch', urlDepth)
  /\ visitedUrls' = visitedUrls \cup linkRequests'
  /\ linkResults' = [url \in Range(currentBatch') \ linkRequests' |-> <<>>]
  /\ issued' = bump(issued, {<<"links", url>> : url \in linkRequests'})
  /\ pc' = "crawlWait"
  /\ UNCHANGED <<discoveredUrls, urlDepth, docPagesCount, result, outputFile, failed>>
  /\ UNCHANGED extractVars
  /\ UNCHANGED callVars

\* the round without visitedUrls.add(url)
DispatchLinkBatch_unmarked ==
  /\ pc = "crawl"
  /\ Len(urlQueue) > 0
  /\ currentBatch' = spliceBatch(urlQueue)
  /\ urlQueue' = SubSeq(urlQueue, Len(currentBatch') + 1, Len(urlQueue))
  /\ linkRequests' = linkRequestsOf(currentBatch', urlDepth)
  /\ linkResults' = [url \in Range(currentBatch') \ linkRequests' |-> <<>>]
  /\ issued' = bump(issued, {<<"links", url>> : url \in linkRequests'})
  /\ pc' = "crawlWait"
  /\ UNCHANGED <<discoveredUrls, visitedUrls, urlDepth, docPagesCount, result, outputFile,
                 failed>>
  /\ UNCHANGED extractVars
  /\ UNCHANGED callVars

\* one round of `while (urlQueue.length > 0)` up to the await
DispatchLinkBatch ==
  /\ pc = "crawl"
  /\ Len(urlQueue) > 0
  /\ currentBatch' = spliceBatch(urlQueue)
  /\ urlQueue' = SubSeq(urlQueue, Len(currentBatch') + 1, Len(urlQueue))
  /\ visitedUrls' = visitedUrls \cup Range(currentBatch')
  /\ linkRequests' = linkRequestsOf(currentBatch', urlDepth)
  /\ linkResults' = [url \in Range(currentBatch') \ linkRequests' |-> <<>>]
  /\ issued' = bump(issued, {<<"links", url>> : url \in linkRequests'})
  /\ pc' = "crawlWait"
  /\ UNCHANGED <<discoveredUrls, urlDepth, docPagesCount, result, outputFile, failed>>
  /\ UNCHANGED extractVars
  /\ UNCHANGED callVars

\* a .then callback that adds the links it received to the shared state itself
SettleLinks_merging(url, ok) ==
  /\ pc = "crawlWait"
  /\ url \in linkRequests
  /\ ok \/ mayFail
  /\ linkRequests' = linkRequests \ {url}
  /\ linkResults' = (url :> extractLinksFromUrl(url, baseDomain, ok)) @@ linkResults
  /\ failed' = IF ok THEN failed ELSE failed \cup {<<"links", url>>}
  /\ LET st == addLinks([discovered |-> discoveredUrls, queue |-> urlQueue,
                         depth |-> urlDepth, count |-> docPagesCount],
                        extractLinksFromUrl(url, baseDomain, ok), depthOf(urlDepth, url) + 1)
     IN  /\ discoveredUrls' = st.discovered
         /\ urlQueue' = st.queue
         /\ urlDepth' = st.depth
         /\ docPagesCount' = st.count
  /\ UNCHANGED <<pc, visitedUrls, currentBatch, result, outputFile, issued>>
  /\ UNCHANGED extractVars
  /\ UNCHANGED callVars

\* one request of the batch settles; ok = FALSE: network error or timeout
SettleLinks(url, ok) ==
  /\ pc = "crawlWait"
  /\ url \in linkRequests
  /\ ok \/ mayFail
  /\ linkRequests' = linkRequests \ {url}
  /\ linkResults' = (url :> extractLinksFromUrl(url, baseDomain, ok)) @@ linkResults
  /\ failed' = IF ok THEN failed ELSE failed \cup {<<"links", url>>}
  /\ UNCHANGED <<pc, discoveredUrls, visitedUrls, urlQueue, urlDepth, docPagesCount,
                 currentBatch, result, outputFile, issued>>
  /\ UNCHANGED extractVars
  /\ UNCHANGED callVars

\* the rest of the round, after the await
MergeLinks ==
  /\ pc = "crawlWait"
  /\ allSettled(linkRequests)
  /\ LET st == mergeResults([discovered |-> discoveredUrls, queue |-> urlQueue,
                             depth |-> urlDepth, count |-> docPagesCount],
                            currentBatch, linkResults)
     IN  /\ discoveredUrls' = st.discovered
         /\ urlQueue' = st.queue
         /\ urlDepth' = st.depth
         /\ docPagesCount' = st.count
  /\ pc' = "crawl"
  /\ UNCHANGED <<visitedUrls, currentBatch, linkRequests, linkResults, result,
                 outputFile, failed, issued>>
  /\ UNCHANGED extractVars
  /\ UNCHANGED callVars

----------------------------------------------------------------------------
(* Extraction loop of scrapeContent *)

\* uniqueUrlsArray.filter(url => isLikelyDocPage(url))
docUrlsOf(urls) == SelectSeq(urls, isLikelyDocPage)

\* docUrls itself, however many there are
worklist_uncut(discovered) == docUrlsOf(discovered)

\* docUrls.slice(0, maxPages)
worklist(discovered) == slice(docUrlsOf(discovered), 0, maxPages)

\* the worklist built at the start of any round, whatever is left in the queue
BuildWorklist_early ==
  /\ pc = "crawl"
  /\ pagesToProcess' = worklist(discoveredUrls)
  /\ i' = 0
  /\ pc' = "extract"
  /\ UNCHANGED <<batch, pageRequests, pageResults, batchPages, cleanRequests,
                 cleanResults, pages, cleanLog, extracted, result, outputFile, failed,
                 issued>>
  /\ UNCHANGED crawlVars
  /\ UNCHANGED callVars

\* the queue is empty: the crawl is over and the worklist is built
BuildWorklist ==
  /\ pc = "crawl"
  /\ Len(urlQueue) = 0
  /\ pagesToProcess' = worklist(discoveredUrls)
  /\ i' = 0
  /\ pc' = "extract"
  /\ UNCHANGED <<batch, pageRequests, pageResults, batchPages, cleanRequests,
                 cleanResults, pages, cleanLog, extracted, result, outputFile, failed,
                 issued>>
  /\ UNCHANGED crawlVars
  /\ UNCHANGED callVars

\* one round of `for (let i = 0; ...; i += batchSize)` up to the await
DispatchPageBatch ==
  /\ pc = "extract"
  /\ i < Len(pagesToProcess)
  /\ batch' = slice(pagesToProcess, i, i + batchSize)
  /\ pageRequests' = {url \in Range(batch') : requestsPage(url)}
  /\ pageResults' = [url \in Range(batch') \ pageRequests' |-> scrapePageContent(url, TRUE)]
  /\ issued' = bump(issued, {<<"page", url>> : url \in pageRequests'})
  /\ pc' = "extractWait"
  /\ UNCHANGED <<pagesToProcess, i, batchPages, cleanRequests, cleanResults, pages,
                 cleanLog, extracted, result, outputFile, failed>>
  /\ UNCHANGED crawlVars
  /\ UNCHANGED callVars

SettlePage(url, ok) ==
  /\ pc = "extractWait"
  /\ url \in pageRequests
  /\ ok \/ mayFail
  /\ pageRequests' = pageRequests \ {url}
  /\ pageResults' = (url :> scrapePageContent(url, ok)) @@ pageResults
  /\ failed' = IF ok THEN failed ELSE failed \cup {<<"page", url>>}
  /\ UNCHANGED <<pc, pagesToProcess, i, batch, batchPages, cleanRequests, cleanResults,
                 pages, cleanLog, extracted, result, outputFile, issued>>
  /\ UNCHANGED crawlVars
  /\ UNCHANGED callVars

\* the loop over the results left at the first result without a page
RECURSIVE scrapedPages_stopAtNull(_, _)
scrapedPages_stopAtNull(urls, results) ==
  IF urls = <<>> \/ results[Head(urls)] = null THEN <<>>
  ELSE <<results[Head(urls)]>> \o scrapedPages_stopAtNull(Tail(urls), results)

\* the pages of the batch that were scraped, in the order of the batch
RECURSIVE scrapedPages(_, _)
scrapedPages(urls, results) ==
  IF urls = <<>> THEN <<>>
  ELSE IF results[Head(urls)] # null
       THEN <<results[Head(urls)]>> \o scrapedPages(Tail(urls), results)
       ELSE scrapedPages(Tail(urls), results)

\* after the await; src/src/scraper.js pushes the pages, unnamed/part_005
\* collects them in batchPages and sends each one to cleanMarkdownWithAI
CollectPages ==
  /\ pc = "extractWait"
  /\ allSettled(pageRequests)
  /\ extracted' = extracted \o scrapedPages(batch, pageResults)
  /\ LET scraped == scrapedPages(batch, pageResults)
     IN  IF ~withAI
         THEN /\ pages' = pages \o scraped
              /\ i' = i + batchSize
              /\ pc' = "extract"
              /\ UNCHANGED <<batchPages, cleanRequests, cleanResults, issued>>
         ELSE /\ batchPages' = scraped
              /\ IF Len(scraped) > 0
                 THEN /\ cleanRequests' = {scraped[k].url : k \in 1..Len(scraped)}
                      /\ cleanResults' = [url \in {} |-> null]
                      /\ issued' = bump(issued, {<<"clean", url>> : url \in cleanRequests'})
                      /\ pc' = "cleanWait"
                      /\ UNCHANGED i
                 ELSE /\ i' = i + batchSize
                      /\ pc' = "extract"
                      /\ UNCHANGED <<cleanRequests, cleanResults, issued>>
              /\ UNCHANGED pages
  /\ UNCHANGED <<pagesToProcess, batch, pageRequests, pageResults, cleanLog, result,
                 outputFile, failed>>
  /\ UNCHANGED crawlVars
  /\ UNCHANGED callVars

pageOf(ps, url) == ps[CHOOSE k \in 1..Len(ps) : ps[k].url = url]

\* one cleaning call settles with the reply of the completion service
SettleClean(url, reply) ==
  /\ pc = "cleanWait"
  /\ url \in cleanRequests
  /\ ~degenerate(reply) \/ mayFail
  /\ LET page == pageOf(batchPages, url)
         cleanedContent == cleanMarkdownWithAI(page.content, page.title, page.url, reply)
     IN  /\ cleanResults' = (url :> [page EXCEPT !.content = cleanedContent]) @@ cleanResults
         /\ cleanLog' = cleanLog \cup
                          {[given |-> page.content, reply |-> reply, returned |-> cleanedContent]}
  /\ cleanRequests' = cleanRequests \ {url}
  /\ failed' = IF degenerate(reply) THEN failed \cup {<<"clean", url>>} ELSE failed
  /\ UNCHANGED <<pc, pagesToProcess, i, batch, pageRequests, pageResults, batchPages,
                 pages, extracted, result, outputFile, issued>>
  /\ UNCHANGED crawlVars
  /\ UNCHANGED callVars

\* only the pages whose content the cleaning changed are pushed
cleanedPages_changedOnly(ps, cleaned) ==
  SelectSeq([k \in 1..Len(ps) |-> cleaned[ps[k].url]],
            LAMBDA page : page.content # pageOf(ps, page.url).content)

\* cleanedResults.forEach: the value of each call, in the order of batchPages
cleanedPages(ps, cleaned) == [k \in 1..Len(ps) |-> cleaned[ps[k].url]]

\* after the second await: the cleaned pages are pushed in the order of batchPages
CollectCleaned ==
  /\ pc = "cleanWait"
  /\ allSettled(cleanRequests)
  /\ pages' = pages \o cleanedPages(batchPages, cleanResults)
  /\ i' = i + batchSize
  /\ pc' = "extract"
  /\ UNCHANGED <<pagesToProcess, batch, pageRequests, pageResults, batchPages,
                 cleanRequests, cleanResults, cleanLog, extracted, result, outputFile,
                 failed, issued>>
  /\ UNCHANGED crawlVars
  /\ UNCHANGED callVars

\* the loop is over: nothing scraped, or sort, table of contents and document
Compile ==
  /\ pc = "extract"
  /\ ~(i < Len(pagesToProcess))
  /\ \E sorted \in {IF Len(pages) = 0 THEN pages ELSE sortPages(pages)} :
       /\ pages' = sorted
       /\ result' = scrapeResult(startUrl, sorted)
  /\ pc' = "returned"
  /\ UNCHANGED <<pagesToProcess, i, batch, pageRequests, pageResults, batchPages,
                 cleanRequests, cleanResults, cleanLog, extracted, outputFile, failed,
                 issued>>
  /\ UNCHANGED crawlVars
  /\ UNCHANGED callVars

----------------------------------------------------------------------------
(* addDocumentation (src/src/index.js), after scrapeContent has returned *)

noFile == [kind |-> "none"]

\* fs.writeFile(fileName, content)
SaveDocumentation ==
  /\ pc = "returned"
  /\ outputFile' = result
  /\ pc' = "saved"
  /\ UNCHANGED <<result, failed, issued>>
  /\ UNCHANGED crawlVars
  /\ UNCHANGED extractVars
  /\ UNCHANGED callVars

----------------------------------------------------------------------------
(* The CLI options (bin, unnamed/part_001) and the specification *)

\* parseInt(options.concurrency, 10) || 10, for --concurrency 2 and for the default
Concurrencies == {2, 10}

\* the state scrapeContent(startUrl) starts in, for a start URL among urls
Start(urls) ==
  /\ startUrl \in urls
  /\ options \in [disableAI : BOOLEAN, concurrency : Concurrencies]
  /\ withAI \in BOOLEAN
  /\ pc = "crawl"
  /\ discoveredUrls = <<startUrl>>
  /\ visitedUrls = {}
  /\ urlQueue = <<startUrl>>
  /\ urlDepth = (startUrl :> 1)
  /\ docPagesCount = 0
  /\ currentBatch = <<>>
  /\ linkRequests = {}
  /\ linkResults = [url \in {} |-> <<>>]
  /\ pagesToProcess = <<>>
  /\ i = 0
  /\ batch = <<>>
  /\ pageRequests = {}
  /\ pageResults = [url \in {} |-> null]
  /\ batchPages = <<>>
  /\ cleanRequests = {}
  /\ cleanResults = [url \in {} |-> null]
  /\ pages = <<>>
  /\ result = [kind |-> "pending"]
  /\ outputFile = noFile
  /\ failed = {}
  /\ issued = [k \in {} |-> 0]
  /\ cleanLog = {}
  /\ extracted = <<>>

Init == Start(StartUrls)

Next ==
  \/ DispatchLinkBatch
  \/ \E url \in linkRequests, ok \in BOOLEAN : SettleLinks(url, ok)
  \/ MergeLinks
  \/ BuildWorklist
  \/ DispatchPageBatch
  \/ \E url \in pageRequests, ok \in BOOLEAN : SettlePage(url, ok)
  \/ CollectPages
  \/ \E url \in cleanRequests : \E reply \in Replies(url) : SettleClean(url, reply)
  \/ CollectCleaned
  \/ Compile
  \/ SaveDocumentation

Spec == Init /\ [][Next]_vars

\* scrapeContent runs on: whenever the loop can take its next step it does.
\* Every request settles: axios.get after its timeout of 10 or 15 seconds at
\* the latest, the completion call by the assumption the run is made under.
Progress ==
  /\ WF_vars(DispatchLinkBatch \/ MergeLinks \/ BuildWorklist \/ DispatchPageBatch
               \/ CollectPages \/ CollectCleaned \/ Compile \/ SaveDocumentation)
  /\ WF_vars(\E url \in linkRequests, ok \in BOOLEAN : SettleLinks(url, ok))
  /\ WF_vars(\E url \in pageRequests, ok \in BOOLEAN : SettlePage(url, ok))
  /\ WF_vars(\E url \in cleanRequests : \E reply \in Replies(url) : SettleClean(url, reply))

\* the start URLs of the two sites with few links per page
ChainStartUrls == {A0, A1, T0}

InitChain == Start(ChainStartUrls)

FairSpec == InitChain /\ [][Next]_vars /\ Progress

\* the same program started on the site with more than maxPages files
InitLargeSite == Start({N0})

SpecLargeSite == InitLargeSite /\ [][Next]_vars

----------------------------------------------------------------------------
(* Properties *)

returned == pc \in {"returned", "saved"}

\* the url's link request of the batch last merged came back, and not as a failure
expanded(url) ==
  /\ <<"links", url>> \in DOMAIN issued
  /\ <<"links", url>> \notin failed
  /\ url \notin linkRequests
  /\ ~(pc = "crawlWait" /\ url \in Range(currentBatch))

\* the contents of the page sections of the returned document, in order
RECURSIVE pageSections(_)
pageSections(text) ==
  IF text = <<>> THEN <<>>
  ELSE IF Head(text).kind = "page" THEN <<Head(text).content>> \o pageSections(Tail(text))
  ELSE pageSections(Tail(text))

\* C1: every URL in discoveredUrls, and so the URL of every extracted page,
\* has the hostname of the start URL
C1_SameHostname ==
  /\ \A k \in 1..Len(discoveredUrls) : hostname(discoveredUrls[k]) = baseDomain
  /\ \A k \in 1..Len(pages) : hostname(pages[k].url) = baseDomain

\* a page with a link to another hostname was fetched and its links were merged
C1_Witness ==
  /\ \E url \in Range(discoveredUrls) :
       /\ expanded(url)
       /\ \E k \in 1..Len(get(url).hrefs) : hostname(get(url).hrefs[k]) # baseDomain
       /\ \E k \in 1..Len(get(url).hrefs) : get(url).hrefs[k] \in Range(discoveredUrls) \ {url}
  /\ returned /\ Len(pages) > 1

\* C2: every page handed to the assembler has a URL that is in discoveredUrls
\* and whose recorded depth is at most maxDepth
C2_DepthOfPages ==
  returned =>
    \A k \in 1..Len(pages) :
      /\ pages[k].url \in Range(discoveredUrls)
      /\ urlDepth[pages[k].url] <= maxDepth

\* C3: no more link requests, and no more page requests, are in flight than
\* the concurrency the caller passed
C3_ConcurrencyOption ==
  /\ Cardinality(linkRequests) <= options.concurrency
  /\ Cardinality(pageRequests) <= options.concurrency

\* C4: at most batchSize link requests and at most batchSize page requests are
\* in flight, and requests are issued only when none is in flight
C4_BatchBound ==
  /\ [](Cardinality(linkRequests) <= batchSize /\ Cardinality(pageRequests) <= batchSize)
  /\ [][(linkRequests' \ linkRequests # {} \/ pageRequests' \ pageRequests # {})
          => (linkRequests = {} /\ pageRequests = {})]_vars

\* a full batch of link requests is in flight while the queue holds more URLs
C4_Witness == Cardinality(linkRequests) = batchSize /\ Len(urlQueue) > 0

\* C5: when the results of a batch are merged, every link returned for a URL of
\* the batch is in discoveredUrls afterwards, a URL whose request failed has
\* returned no link, the loop is back at its head, and no URL gets a second
\* link request
C5_FailureIsolation ==
  /\ [][(pc = "crawlWait" /\ pc' # "crawlWait") =>
          /\ pc' = "crawl"
          /\ \A url \in Range(currentBatch) :
               /\ Range(linkResults[url]) \subseteq Range(discoveredUrls')
               /\ <<"links", url>> \in failed =>
                    (linkResults[url] = <<>> /\ url \in visitedUrls')]_vars
  /\ [](\A url \in Range(discoveredUrls) :
          <<"links", url>> \in DOMAIN issued => issued[<<"links", url>>] = 1)

\* a batch was merged in which one request failed and another URL, later in
\* the batch, brought a link that was not known before, and the crawl goes on
C5_Witness ==
  /\ pc = "crawl"
  /\ Len(urlQueue) > 0
  /\ \E k, l \in 1..Len(currentBatch) :
       /\ k < l
       /\ <<"links", currentBatch[k]>> \in failed
       /\ \E link \in Range(linkResults[currentBatch[l]]) :
            /\ link \in Range(urlQueue)
            /\ urlDepth[link] = urlDepth[currentBatch[l]] + 1

\* C6: with no page extracted scrapeContent returns the message that nothing
\* was scraped; a document it returns has at least one page section
C6_NothingScraped ==
  returned =>
    /\ Len(pages) = 0 => (result.kind = "message" /\ result = nothingScraped)
    /\ result.kind = "document" => (Len(pages) >= 1 /\ Len(pageSections(result.text)) >= 1)
    /\ result.kind \in {"message", "document"}

\* scrapeContent has returned without a single page
C6_Witness == returned /\ Len(pages) = 0 /\ Len(pagesToProcess) > 0 /\ result = nothingScraped

\* C7: after a crawl that ended with the message that nothing was scraped,
\* the caller has written no file
C7_NoFileWithoutPages ==
  (pc = "saved" /\ result = nothingScraped) => outputFile = noFile

\* C8: in the returned document a page whose URL has an introductory term
\* comes before every page whose URL has none
C8_IntroFirst ==
  returned =>
    /\ result.kind = "document" =>
         pageSections(result.text) = [k \in 1..Len(pages) |-> pages[k].content]
    /\ \A k, l \in 1..Len(pages) :
         (hasIntro(pages[k].url) /\ ~hasIntro(pages[l].url)) => k < l

\* an introductory page precedes a page whose title sorts before its own
C8_Witness ==
  /\ returned
  /\ \E k, l \in 1..Len(pages) :
       /\ k < l
       /\ hasIntro(pages[k].url) /\ ~hasIntro(pages[l].url)
       /\ localeCompare(pages[k].title, pages[l].title) > 0

\* C9: in the returned document, of two pages that both have or both lack an
\* introductory term in the URL, the earlier one has the title that
\* localeCompare does not put after the other
C9_TitleOrder ==
  returned =>
    \A k, l \in 1..Len(pages) :
      (k < l /\ hasIntro(pages[k].url) = hasIntro(pages[l].url))
        => localeCompare(pages[k].title, pages[l].title) <= 0

\* two introductory pages come first, then at least three others, and the
\* extraction had found them in another order
C9_Witness ==
  /\ returned
  /\ Len(pages) >= 5
  /\ hasIntro(pages[1].url) /\ hasIntro(pages[2].url)
  /\ \A k \in 3..Len(pages) : ~hasIntro(pages[k].url)
  /\ localeCompare(pages[1].title, pages[2].title) < 0
  /\ \E k, l \in 1..Len(pagesToProcess) :
       /\ k < l
       /\ \E m, n \in 1..Len(pages) :
            m > n /\ pages[m].url = pagesToProcess[k] /\ pages[n].url = pagesToProcess[l]

\* C10: cleanMarkdownWithAI returns the content it was given when the call
\* failed or the reply is empty or shorter than 100 characters, and the reply
\* otherwise
C10_RefinementFallback ==
  \A call \in cleanLog :
    IF \/ call.reply.kind = "error"
       \/ call.reply.content = null
       \/ call.reply.content.length < 100
    THEN call.returned = call.given
    ELSE call.returned = call.reply.content /\ call.returned # call.given

\* a reply of 99 characters was dropped and a reply of 100 characters was kept
C10_Witness ==
  /\ \E call \in cleanLog :
       /\ call.reply.kind = "completion" /\ call.reply.content # null
       /\ call.reply.content.length = 99
       /\ call.returned = call.given
  /\ \E call \in cleanLog :
       /\ call.reply.kind = "completion" /\ call.reply.content # null
       /\ call.reply.content.length = 100
       /\ call.returned = call.reply.content

\* C11: with the cleaning step in place, a cleaning call that fails neither
\* stops scrapeContent nor touches another page: the returned document holds
\* every page scrapePageContent returned, the pages whose cleaning failed
\* with the content they were scraped with, every other page as cleaned
C11_RefinementIsolation ==
  (returned /\ withAI) =>
    /\ Len(pages) = Len(extracted)
    /\ Len(extracted) > 0 => result.kind = "document"
    /\ \A k \in 1..Len(extracted) :
         \E m \in 1..Len(pages) :
           /\ pages[m].url = extracted[k].url
           /\ pages[m].title = extracted[k].title
           /\ IF <<"clean", extracted[k].url>> \in failed
              THEN pages[m].content = extracted[k].content
              ELSE pages[m].content.by = "gpt-4o-mini" /\ pages[m].content.of = pages[m].url

\* a document of several pages, one of them with a failed cleaning call
C11_Witness ==
  /\ returned /\ withAI /\ result.kind = "document"
  /\ Len(pages) >= 2
  /\ \E k \in 1..Len(pages) :
       <<"clean", pages[k].url>> \in failed /\ pages[k].content.by = "scrapePageContent"
  /\ \E k \in 1..Len(pages) :
       <<"clean", pages[k].url>> \notin failed /\ pages[k].content.by = "gpt-4o-mini"

\* C12: when the caller passes disableAI, cleanMarkdownWithAI is never called
\* and every page keeps the content scrapePageContent gave it
C12_DisableAI ==
  options.disableAI =>
    /\ \A key \in DOMAIN issued : key[1] # "clean"
    /\ cleanLog = {}
    /\ \A k \in 1..Len(pages) : pages[k].content.by = "scrapePageContent"

\* C13: when the extraction loop starts, pagesToProcess is the discovered
\* URLs that isLikelyDocPage accepts, in the order they were discovered, cut
\* to the first maxPages; from then on scrapePageContent is asked for at most
\* maxPages URLs, all of them in pagesToProcess, and at most maxPages pages
\* are collected
C13_Worklist ==
  pc \notin {"crawl", "crawlWait"} =>
    /\ (pc = "extract" /\ i = 0) =>
         LET accepted == SelectSeq(discoveredUrls, isLikelyDocPage)
         IN  /\ Len(pagesToProcess) = Min(Len(accepted), maxPages)
             /\ pagesToProcess = SubSeq(accepted, 1, Len(pagesToProcess))
    /\ Len(pagesToProcess) <= maxPages
    /\ \A key \in DOMAIN issued :
         key[1] = "page" => key[2] \in Range(pagesToProcess) /\ issued[key] = 1
    /\ Cardinality({key \in DOMAIN issued : key[1] = "page"}) <= maxPages
    /\ Len(pages) <= maxPages
    /\ \A k \in 1..Len(pages) : pages[k].url \in Range(pagesToProcess)

\* more than maxPages accepted URLs were discovered: the one at position
\* maxPages was scraped, the next one was left out
C13_Witness ==
  /\ returned
  /\ docPagesCount >= maxPages
  /\ Len(pagesToProcess) = maxPages
  /\ pagesToProcess[maxPages] = NLast
  /\ \E k \in 1..Len(pages) : pages[k].url = NLast
  /\ NOver \in Range(discoveredUrls)
  /\ isLikelyDocPage(NOver)
  /\ <<"page", NOver>> \notin DOMAIN issued

\* the url has one of the exclude patterns somewhere in it
denied(url) ==
  \E pattern \in excludePatterns :
    \E k \in 1..Len(url) :
      /\ k + Len(pattern) - 1 <= Len(url)
      /\ \A j \in 1..Len(pattern) : url[k + j - 1] = pattern[j]

\* C14: isLikelyDocPage is false for the URLs that contain an exclude pattern
\* and true for all others; a URL that contains one, the start URL too, is
\* never in pagesToProcess, never given to scrapePageContent and never the
\* URL of a page, and every other URL is in pagesToProcess unless maxPages
\* cuts it off
C14_DenyList ==
  /\ \A url \in Range(discoveredUrls) : isLikelyDocPage(url) = ~denied(url)
  /\ \A url \in Range(discoveredUrls) :
       denied(url) =>
         /\ url \notin Range(pagesToProcess)
         /\ url \notin Range(batch)
         /\ <<"page", url>> \notin DOMAIN issued
         /\ \A k \in 1..Len(extracted) : extracted[k].url # url
         /\ \A k \in 1..Len(pages) : pages[k].url # url
  /\ (pc \notin {"crawl", "crawlWait"} /\ Len(discoveredUrls) <= maxPages) =>
       \A url \in Range(discoveredUrls) : ~denied(url) => url \in Range(pagesToProcess)

\* the crawl started at a URL with /team/ in it: its links were followed and
\* led to pages of the document, the start URL itself is not one of them
C14_Witness ==
  /\ returned /\ result.kind = "document"
  /\ denied(startUrl)
  /\ expanded(startUrl)
  /\ Len(pages) >= 2
  /\ \E url \in Range(discoveredUrls) : url # startUrl /\ denied(url)

\* C15: the decision isLikelyDocPage took on a link when the link was
\* discovered (docPagesCount counts the links it accepted then) is the
\* decision it takes on that URL in every later state of the crawl, and the
\* one it takes when pagesToProcess is built
C15_SameDecision ==
  /\ docPagesCount =
       Cardinality({k \in 2..Len(discoveredUrls) : isLikelyDocPage(discoveredUrls[k])})
  /\ pc \notin {"crawl", "crawlWait"} =>
       Len(pagesToProcess) =
         Min(docPagesCount + (IF isLikelyDocPage(startUrl) THEN 1 ELSE 0), maxPages)

\* pagesToProcess was built after links were discovered in several rounds,
\* some of them accepted and some of them not
C15_Witness ==
  /\ pc = "extract"
  /\ docPagesCount >= 2
  /\ Len(discoveredUrls) - 1 > docPagesCount
  /\ \E k, l \in 2..Len(discoveredUrls) :
       /\ urlDepth[discoveredUrls[k]] < urlDepth[discoveredUrls[l]]
       /\ isLikelyDocPage(discoveredUrls[k]) /\ isLikelyDocPage(discoveredUrls[l])

\* the link request for the url did not bring a page to take links from: it
\* failed or timed out, or the answer had a status of 400 or more, or a
\* content type that is not HTML-like
noLinksPage(url) ==
  \/ <<"links", url>> \in failed
  \/ get(url).status >= 400
  \/ get(url).contentType \notin {Html}

\* C16: extractLinksFromUrl gives the crawl loop a list whatever happens, the
\* empty list when the request failed, timed out, was answered with a status
\* of 400 or more or with a content type that is not HTML-like; the round
\* then leaves discoveredUrls, urlQueue, urlDepth and docPagesCount as a page
\* without links leaves them, and every URL the round adds is a link of a
\* page of the batch that did come back
C16_SilentLinkFailure ==
  /\ [](\A url \in DOMAIN linkResults : noLinksPage(url) => linkResults[url] = <<>>)
  /\ [][(pc = "crawlWait" /\ pc' # "crawlWait") =>
          /\ pc' = "crawl"
          /\ \A link \in Range(discoveredUrls') \ Range(discoveredUrls) :
               \E url \in Range(currentBatch) :
                 ~noLinksPage(url) /\ link \in Range(get(url).hrefs)
          /\ (\A url \in Range(currentBatch) :
                noLinksPage(url) \/ get(url).hrefs = <<>>) =>
               UNCHANGED <<discoveredUrls, urlQueue, urlDepth, docPagesCount>>]_vars

\* the crawl is over after a round in which one request failed, one was
\* answered 404, one with JSON and nothing was added
C16_Witness ==
  /\ pc = "crawl" /\ urlQueue = <<>>
  /\ Len(currentBatch) >= 3
  /\ \E url \in Range(currentBatch) : <<"links", url>> \in failed
  /\ \E url \in Range(currentBatch) :
       <<"links", url>> \notin failed /\ get(url).status = 404
  /\ \E url \in Range(currentBatch) :
       /\ <<"links", url>> \notin failed
       /\ get(url).status = 200 /\ get(url).contentType = Json /\ get(url).hrefs # <<>>
  /\ \A url \in Range(currentBatch) : linkResults[url] = <<>>

\* C17: every link extractLinksFromUrl returns, and so every discovered URL
\* but the start URL, has the hostname of the start URL, has no '#' and no
\* '?' in it and does not end in one of the file extensions the crawler
\* skips; no list of links has a URL twice
C17_LinkFilter ==
  /\ \A k \in 2..Len(discoveredUrls) :
       LET url == discoveredUrls[k]
       IN  /\ hostname(url) = hostname(startUrl)
           /\ "#" \notin Range(url)
           /\ "?" \notin Range(url)
           /\ ~matchesAssetExtension(url)
  /\ \A url \in DOMAIN linkResults :
       \A k, l \in 1..Len(linkResults[url]) :
         linkResults[url][k] = linkResults[url][l] => k = l

\* the request for the url cannot give a page: it failed, or the answer is
\* not HTML-like, or none of the content selectors finds anything in it
noPage(url) ==
  \/ <<"page", url>> \in failed
  \/ get(url).contentType \notin {Html}
  \/ ~get(url).mainContent

\* the url is one scrapePageContent makes a page of when its request gets through
scrapable(url) ==
  /\ ~matchesAssetExtension(url)
  /\ get(url).status = 200 /\ get(url).contentType = Html
  /\ get(url).mainContent /\ get(url).markdown >= minContentLength

\* C18: scrapePageContent gives a page of the URL it was asked for or null;
\* it gives null when the request failed, the content type is not HTML-like
\* or no content selector matched; the loop goes on all the same: every URL of
\* the batches gone through was asked for, every one that could be scraped
\* has its page, and scrapeContent returns only after the whole worklist
C18_SilentPageFailure ==
  /\ \A url \in DOMAIN pageResults :
       /\ pageResults[url] # null => pageResults[url].url = url
       /\ noPage(url) => pageResults[url] = null
  /\ \A k \in 1..Min(i, Len(pagesToProcess)) :
       LET url == pagesToProcess[k]
       IN  /\ ~matchesAssetExtension(url) => <<"page", url>> \in DOMAIN issued
           /\ (scrapable(url) /\ <<"page", url>> \notin failed) =>
                \E n \in 1..Len(extracted) : extracted[n].url = url
  /\ returned => i >= Len(pagesToProcess)

\* a URL whose request failed gave no page, a later URL of its batch did and
\* so did a URL of the next batch; there a URL without main content gave no
\* page and a later URL of that batch did
C18_Witness ==
  /\ returned /\ result.kind = "document"
  /\ \E a, b, c, d \in 1..Len(pagesToProcess) :
       /\ a < b /\ b < c /\ c < d
       /\ (a - 1) \div batchSize = (b - 1) \div batchSize
       /\ (b - 1) \div batchSize < (c - 1) \div batchSize
       /\ (c - 1) \div batchSize = (d - 1) \div batchSize
       /\ <<"page", pagesToProcess[a]>> \in failed
       /\ \E n \in 1..Len(pages) : pages[n].url = pagesToProcess[b]
       /\ ~get(pagesToProcess[c]).mainContent
       /\ <<"page", pagesToProcess[c]>> \in DOMAIN issued
       /\ \E n \in 1..Len(pages) : pages[n].url = pagesToProcess[d]

\* the length of the markdown in a content that scrapePageContent put
\* together: what follows "# title", "Source: url" and the blank lines
markdownLength(page) == page.content.length - (Len(page.title) + Len(page.url) + 14)

\* C19: the content of every page that is collected has at least 100
\* characters: scrapePageContent returns no page whose markdown is shorter,
\* and cleanMarkdownWithAI returns no text that is shorter
C19_MinimumContent ==
  /\ \A k \in 1..Len(extracted) :
       /\ extracted[k].content.length >= minContentLength
       /\ markdownLength(extracted[k]) >= minContentLength
  /\ \A call \in cleanLog : call.returned.length >= minContentLength
  /\ \A k \in 1..Len(pages) :
       pages[k].content # null /\ pages[k].content.length >= minContentLength

\* the document has a page scraped with exactly 100 characters of markdown
\* and a page whose cleaned content has exactly 100 characters
C19_Witness ==
  /\ returned /\ result.kind = "document"
  /\ \E k \in 1..Len(extracted) : markdownLength(extracted[k]) = minContentLength
  /\ \E k \in 1..Len(pages) :
       pages[k].content.by = "gpt-4o-mini" /\ pages[k].content.length = minContentLength
  /\ \E call \in cleanLog :
       call.reply.content # null /\ call.reply.content.length = minContentLength - 1

\* anchor is title in lower case with a single hyphen in the place of every
\* maximal run of characters other than a-z and 0-9: of the lower-case
\* title the letters and digits stay, and of every run its first character
\* stays as a hyphen
isAnchorOf(anchor, title) ==
  LET low == toLowerCase(title)
      stays == {k \in 1..Len(low) :
                  alphanumeric(low[k]) \/ k = 1 \/ alphanumeric(low[k - 1])}
      place(k) == Cardinality({j \in stays : j <= k})
  IN  /\ Len(anchor) = Cardinality(stays)
      /\ \A k \in stays :
           anchor[place(k)] = IF alphanumeric(low[k]) THEN low[k] ELSE "-"

\* C20: the table of contents of the returned document has one item per page,
\* in the order of the pages of the document, numbered 1, 2, .., n; item k
\* shows the title of page k and links to the anchor made of that title
C20_TableOfContents ==
  (returned /\ result.kind = "document") =>
    LET toc == result.text[3]
    IN  /\ toc.kind = "toc"
        /\ \A k \in 1..Len(result.text) : result.text[k].kind = "toc" => k = 3
        /\ Len(toc.items) = Len(pages)
        /\ pageSections(result.text) = [k \in 1..Len(pages) |-> pages[k].content]
        /\ \A k \in 1..Len(pages) :
             /\ toc.items[k].number = k
             /\ toc.items[k].title = pages[k].title
             /\ isAnchorOf(toc.items[k].anchor, pages[k].title)

\* a document of three pages or more; one title has upper-case letters and a
\* space, one has several characters in a row that are neither letter nor
\* digit, and one anchor ends in a hyphen
C20_Witness ==
  /\ returned /\ result.kind = "document"
  /\ Len(pages) >= 3
  /\ \E k \in 1..Len(pages) :
       /\ " " \in Range(pages[k].title)
       /\ pages[k].title # toLowerCase(pages[k].title)
  /\ \E k \in 1..Len(pages) :
       \E j \in 1..(Len(pages[k].title) - 1) :
         /\ ~alphanumeric(lowerChar(pages[k].title[j]))
         /\ ~alphanumeric(lowerChar(pages[k].title[j + 1]))
  /\ \E k \in 1..Len(pages) :
       LET anchor == result.text[3].items[k].anchor
       IN  Len(anchor) < Len(pages[k].title) /\ anchor[Len(anchor)] = "-"

\* C21: the returned document is the header that names the start URL, the
\* table of contents and the content of each page in the order of pages,
\* with the same separator between every two of them and nowhere else: n
\* pages give n + 2 sections and n + 1 separators
C21_DocumentLayout ==
  (returned /\ result.kind = "document") =>
    LET text == result.text
        n == Len(pages)
        sections == {k \in 1..Len(text) : text[k].kind # "separator"}
        separators == {k \in 1..Len(text) : text[k].kind = "separator"}
    IN  /\ Cardinality(sections) = n + 2
        /\ Cardinality(separators) = n + 1
        /\ sections = {2 * k - 1 : k \in 1..(n + 2)}
        /\ \A k, l \in separators : text[k] = text[l]
        /\ text[1].kind = "header" /\ text[1].source = startUrl
        /\ text[3].kind = "toc"
        /\ \A k \in 1..n :
             text[2 * k + 3].kind = "page" /\ text[2 * k + 3].content = pages[k].content

\* a document of three pages or more: four separators at least
C21_Witness ==
  /\ returned /\ result.kind = "document"
  /\ Len(pages) >= 3
  /\ Len(result.text) >= 9
  /\ result.text[2].kind = "separator" /\ result.text[Len(result.text)].kind = "page"

\* C22: when every request settles, scrapeContent returns, with a document
\* or with the message that nothing was scraped; the crawl loop is left only
\* with an empty queue, and the URLs beyond maxDepth are taken from the queue
\* without a request
C22_Termination ==
  /\ <>(pc = "returned" /\ result.kind \in {"document", "message"})
  /\ [][(pc = "crawl" /\ pc' = "extract") => urlQueue = <<>>]_vars
  /\ [](\A url \in Range(discoveredUrls) :
          urlDepth[url] > maxDepth => <<"links", url>> \notin DOMAIN issued)

\* scrapeContent has returned a document after a crawl that went beyond maxDepth
C22_Witness ==
  /\ pc = "returned" /\ result.kind = "document"
  /\ urlQueue = <<>>
  /\ \E url \in visitedUrls : urlDepth[url] > maxDepth
  /\ failed # {}

\* the targets of the page's links on the page's own host, and on another one
sameDomainLinks(url) == {link \in Range(get(url).hrefs) : hostname(link) = hostname(url)}

crossDomainLinks(url) == Range(get(url).hrefs) \ sameDomainLinks(url)

C24_DepthAssignedOnce ==
  /\ [](DOMAIN urlDepth = Range(discoveredUrls))
  /\ [][\A url \in DOMAIN urlDepth :
          url \in DOMAIN urlDepth' /\ urlDepth'[url] = urlDepth[url]]_vars

\* the links of a page of the batch just merged lead back to a URL that was
\* discovered two levels or more above that page
C24_Witness ==
  /\ pc = "crawl"
  /\ \E url \in Range(currentBatch) \cap DOMAIN linkResults :
       \E link \in Range(linkResults[url]) : urlDepth[link] + 1 < urlDepth[url]

\* C25: a batch holds URLs of one depth only, and when the links of a URL
\* of some depth have been requested, every known URL one level above it
\* has been taken from the queue in an earlier round that is over
C25_CrossLevelOrdering ==
  /\ \A a, b \in Range(currentBatch) : urlDepth[a] = urlDepth[b]
  /\ \A url \in DOMAIN urlDepth :
       <<"links", url>> \in DOMAIN issued =>
         \A other \in DOMAIN urlDepth :
           urlDepth[other] + 1 = urlDepth[url] =>
             /\ other \in visitedUrls
             /\ ~(pc = "crawlWait" /\ other \in Range(currentBatch))

\* C26: the depth of a URL is the number of link hops at which it was first
\* discovered: 0 for the start URL, and one more than the depth of a
\* visited page that links to it for every other discovered URL
C26_DepthIsHops ==
  /\ urlDepth[startUrl] = 0
  /\ \A url \in Range(discoveredUrls) \ {startUrl} :
       \E page \in visitedUrls :
         /\ url \in Range(get(page).hrefs)
         /\ urlDepth[url] = urlDepth[page] + 1

\* C27: a link enters the queue only with a depth of at most maxDepth; a
\* discovered URL that lies deeper is never in the queue nor in a batch
\* taken from it
C27_QueueWithinMaxDepth ==
  \A url \in Range(discoveredUrls) :
    urlDepth[url] > maxDepth => url \notin Range(urlQueue) \cup visitedUrls

\* C28: the links of a URL deeper than maxDepth are never requested, neither
\* in flight nor counted as issued, and so nothing is discovered more than
\* one level below maxDepth
C28_NoRequestBeyondMaxDepth ==
  /\ \A url \in DOMAIN urlDepth :
       urlDepth[url] > maxDepth =>
         /\ url \notin linkRequests
         /\ \A key \in DOMAIN issued : key # <<"links", url>>
  /\ \A url \in DOMAIN urlDepth : urlDepth[url] <= maxDepth + 1

\* the crawl is over and a visited URL deeper than maxDepth links to a page
\* of its host that was not discovered
C28_Witness ==
  /\ pc = "extract"
  /\ \E url \in visitedUrls :
       /\ urlDepth[url] > maxDepth
       /\ sameDomainLinks(url) \ Range(discoveredUrls) # {}

\* C29: from a state with more than maxPages discovered URLs no step issues
\* a link request: the requests counted as issued for links stay what they are
C29_NoSchedulingBeyondMaxPages ==
  [][Len(discoveredUrls) > maxPages =>
       \A key \in DOMAIN issued' :
         key[1] = "links" => key \in DOMAIN issued /\ issued'[key] = issued[key]]_vars

\* C30: nothing is asked for twice: the links of a URL, the content of a
\* URL and the cleaning of a page are each requested once at most, whether
\* the request failed or not
C30_NoRetries ==
  \A key \in DOMAIN issued :
    /\ key[1] \in {"links", "page", "clean"}
    /\ issued[key] <= 1

\* scrapeContent has returned after requests of the three kinds, one of
\* which failed and was issued that one time only
C30_Witness ==
  /\ returned
  /\ \E key \in failed : issued[key] = 1
  /\ \A kind \in {"links", "page", "clean"} : \E key \in DOMAIN issued : key[1] = kind

C32_VisitedBeforeRequest ==
  /\ [](linkRequests \subseteq visitedUrls)
  /\ [][(pc = "crawl" /\ pc' = "crawlWait") =>
          /\ Range(currentBatch') \cap visitedUrls = {}
          /\ Cardinality(Range(currentBatch')) = Len(currentBatch')
          /\ Range(currentBatch') \subseteq visitedUrls']_vars

\* a link request is in flight for a page that links to a URL visited in
\* an earlier round
C32_Witness ==
  /\ pc = "crawlWait"
  /\ \E url \in linkRequests :
       \E link \in Range(get(url).hrefs) : link \in visitedUrls \ Range(currentBatch)

\* the URLs a crawl discovers that expands one URL after the other, in the
\* order of discovery, with the outcome each link request had in this run
RECURSIVE oneByOne(_, _, _)
oneByOne(discovered, depths, k) ==
  IF k > Len(discovered) THEN discovered
  ELSE LET url == discovered[k]
           links == IF depths[url] > maxDepth THEN <<>>
                    ELSE extractLinksFromUrl(url, baseDomain, <<"links", url>> \notin failed)
           new == SelectSeq(links, LAMBDA link : link \notin Range(discovered))
       IN  oneByOne(discovered \o new,
                    [link \in Range(new) |-> depths[url] + 1] @@ depths, k + 1)

\* the pages an extraction gives that takes the accepted URLs one after the
\* other, with the outcome each page request had in this run
sequentialPages ==
  LET urls == worklist(oneByOne(<<startUrl>>, startUrl :> 1, 1))
      all == [k \in 1..Len(urls) |-> scrapePageContent(urls[k], <<"page", urls[k]>> \notin failed)]
  IN  SelectSeq(all, LAMBDA page : page # null)

\* C33: what scrapeContent returns is what a run without any concurrency
\* returns for the same start URL and the same outcome of every request,
\* whatever the order in which the requests of a batch settled; of two pages
\* the comparator does not tell apart, the one earlier in the worklist
\* comes first
C33_Deterministic ==
  pc = "returned" =>
    LET expected == sortPages(sequentialPages)
    IN  /\ discoveredUrls = oneByOne(<<startUrl>>, startUrl :> 1, 1)
        /\ Len(pages) = Len(expected)
        /\ \A k \in 1..Len(pages) :
             pages[k].url = expected[k].url /\ pages[k].title = expected[k].title
        /\ ~withAI => pages = expected /\ result = scrapeResult(startUrl, expected)
        /\ \A k, l \in 1..Len(pages) :
             (k < l /\ comparePages(pages[k], pages[l]) = 0) =>
               IndexIn(pages[k].url, pagesToProcess) < IndexIn(pages[l].url, pagesToProcess)

\* a document of five pages or more, two of which the comparator does not
\* tell apart, returned after a request had failed
C33_Witness ==
  /\ pc = "returned" /\ result.kind = "document"
  /\ Len(pages) >= 5
  /\ failed # {}
  /\ \E k, l \in 1..Len(pages) : k < l /\ comparePages(pages[k], pages[l]) = 0

\* C34: the cleaning calls in flight are calls for pages of the one batch
\* whose page requests have all settled: never more than the page requests
\* of that batch were, never more than batchSize, and none while a page
\* request is in flight
C34_RefinementWithinExtractionBound ==
  /\ Cardinality(cleanRequests) <= batchSize
  /\ Cardinality(pageRequests) <= batchSize
  /\ cleanRequests # {} =>
       /\ pageRequests = {}
       /\ cleanRequests \subseteq Range(batch)
       /\ Cardinality(cleanRequests) <= Len(batch)

\* as many cleaning calls are in flight as a batch has page requests
C34_Witness ==
  /\ pc = "cleanWait"
  /\ Cardinality(cleanRequests) = batchSize
  /\ Len(pagesToProcess) > batchSize

\* C35: the markup that was translated into the content of an extracted
\* page had no script, style, iframe or svg element in it
C35_StrippedBeforeConversion ==
  \A k \in 1..Len(extracted) :
    extracted[k].content.elements \cap {"script", "style", "iframe", "svg"} = {}

\* C36: as long as the crawl goes on no page and no cleaning was requested;
\* once one was, the queue is empty and no link request is in flight; and
\* the step in which scrapeContent sorts, builds the document and returns
\* is taken with the whole worklist done and no request of any kind in flight
C36_SequentialPhases ==
  /\ [](pc \in {"crawl", "crawlWait"} =>
          /\ pageRequests = {} /\ cleanRequests = {}
          /\ \A key \in DOMAIN issued : key[1] = "links")
  /\ []((\E key \in DOMAIN issued : key[1] \in {"page", "clean"}) =>
          urlQueue = <<>> /\ linkRequests = {})
  /\ [][(pc # "returned" /\ pc' = "returned") =>
          /\ ~(i < Len(pagesToProcess))
          /\ linkRequests = {} /\ pageRequests = {} /\ cleanRequests = {}
          /\ result.kind = "pending"]_vars
  /\ [](returned => linkRequests = {} /\ pageRequests = {} /\ cleanRequests = {})

\* a document was returned after link, page and cleaning requests, the
\* pages in more than one batch
C36_Witness ==
  /\ pc = "returned" /\ result.kind = "document"
  /\ Len(pagesToProcess) > batchSize
  /\ \A kind \in {"links", "page", "clean"} : \E key \in DOMAIN issued : key[1] = kind
  /\ pages # extracted

\* how often x occurs in the sequence s
occurrences(s, x) == Cardinality({k \in 1..Len(s) : s[k] = x})

\* C37: the returned pages are one page for every URL of the worklist whose
\* extraction gave a page, with the URL and the title of that page, and
\* none else; the step that sorts and builds the document leaves in pages
\* the pages it found there, each as often as before, and the document has
\* their contents as its page sections, one for one
C37_PagesPreserved ==
  /\ [](returned =>
          /\ Len(pages) = Len(extracted)
          /\ \A k \in 1..Len(extracted) :
               /\ extracted[k].url \in Range(pagesToProcess)
               /\ Cardinality({l \in 1..Len(pages) : pages[l].url = extracted[k].url}) = 1
               /\ \E l \in 1..Len(pages) :
                    /\ pages[l].url = extracted[k].url /\ pages[l].title = extracted[k].title
                    /\ ~withAI => pages[l] = extracted[k]
          /\ \A url \in Range(pagesToProcess) :
               (scrapable(url) /\ <<"page", url>> \notin failed) =>
                 \E l \in 1..Len(pages) : pages[l].url = url
          /\ result.kind = "document" =>
               pageSections(result.text) = [l \in 1..Len(pages) |-> pages[l].content])
  /\ [][(pc # "returned" /\ pc' = "returned") =>
          /\ Len(pages') = Len(pages)
          /\ \A l \in 1..Len(pages) : occurrences(pages', pages[l]) = occurrences(pages, pages[l])]_vars

\* a document whose pages the sort has put in another order than the
\* extraction, returned after a page request had failed and other URLs of
\* the worklist had given no page
C37_Witness ==
  /\ pc = "returned" /\ result.kind = "document"
  /\ Len(pages) >= 3
  /\ [l \in 1..Len(pages) |-> pages[l].url] # [k \in 1..Len(extracted) |-> extracted[k].url]
  /\ \E url \in Range(pagesToProcess) : <<"page", url>> \in failed
  /\ \E url \in Range(pagesToProcess) : ~scrapable(url)

\* the URLs within k link hops of the start URL, where the links of a URL
\* are those extractLinksFromUrl gives with the outcome its request had
RECURSIVE withinHops(_)
withinHops(k) ==
  IF k = 0 THEN {startUrl}
  ELSE LET nearer == withinHops(k - 1)
       IN  nearer \cup UNION {Range(extractLinksFromUrl(url, baseDomain, <<"links", url>> \notin failed)) :
                                url \in nearer}

\* C38: when the crawl is over, the discovered URLs are the URLs within
\* maxDepth link hops of the start URL, and the depth of each is one more
\* than the least number of hops that lead to it
C38_DiscoveredIsReachable ==
  (pc = "extract" /\ i = 0) =>
    /\ Range(discoveredUrls) = withinHops(maxDepth)
    /\ \A url \in Range(discoveredUrls) :
         /\ url \in withinHops(urlDepth[url] - 1)
         /\ urlDepth[url] > 1 => url \notin withinHops(urlDepth[url] - 2)

\* the crawl is over; a URL maxDepth hops away was discovered and links to
\* a URL of its host that was not, and a nearer URL is linked from a page
\* farther away than the one it was found on
C38_Witness ==
  /\ pc = "extract" /\ i = 0
  /\ \E url \in Range(discoveredUrls) :
       /\ urlDepth[url] = maxDepth + 1
       /\ sameDomainLinks(url) \ Range(discoveredUrls) # {}
  /\ \E url, link \in Range(discoveredUrls) :
       /\ urlDepth[url] <= maxDepth /\ <<"links", url>> \notin failed
       /\ link \in sameDomainLinks(url)
       /\ urlDepth[link] < urlDepth[url]

\* C39: every visited URL is a discovered one, no step takes a URL out of
\* visitedUrls or discoveredUrls, and once the crawl is over every
\* discovered URL is visited, the ones beyond maxDepth too
C39_VisitedAndDiscovered ==
  /\ [](visitedUrls \subseteq Range(discoveredUrls))
  /\ [][/\ visitedUrls \subseteq visitedUrls'
        /\ Len(discoveredUrls) <= Len(discoveredUrls')
        /\ SubSeq(discoveredUrls', 1, Len(discoveredUrls)) = discoveredUrls]_vars
  /\ [](pc \notin {"crawl", "crawlWait"} => visitedUrls = Range(discoveredUrls))

\* the crawl is over and among the visited URLs there is one beyond maxDepth
\* and one whose links were never requested
C39_Witness ==
  /\ pc = "extract"
  /\ \E url \in visitedUrls : urlDepth[url] > maxDepth
  /\ \E url \in visitedUrls : \A key \in DOMAIN issued : key # <<"links", url>>
  /\ Cardinality(visitedUrls) >= maxDepth + 1

====
